---- MODULE Spec2Model ----
(***************************************************************************)
(* The macro risk quadrant dashboard (risk_quadrant_app.py) as a state     *)
(* machine.  One script pass runs top to bottom on the first visit and on  *)
(* every widget interaction: load the workbook (memoised), draw the        *)
(* threshold slider and the date selector, select the row of the chosen    *)
(* date, plot the chart, build the detail table.                           *)
(*                                                                         *)
(* Real numbers are fixed point, in units of 0.0001: 0.3 is 3000, -0.0001  *)
(* is -1, 1.1 is 11000.  A cell is a record [nan, v]; an empty cell is NaN.*)
(* The Chinese category and quadrant names are written in English.         *)
(***************************************************************************)
EXTENDS Integers, Sequences, FiniteSets, TLC

VARIABLES fs, sheet, cached, df, load_msg, probed, reads, loaded,
          attention_threshold, selected_date, selected_data, screen

vars == <<fs, sheet, cached, df, load_msg, probed, reads, loaded,
          attention_threshold, selected_date, selected_data, screen>>

(* ------------------------------ bounds --------------------------------- *)
MaxRows == 2
MaxDate == 2
NumCategories == 2

(* ------------------------------ numbers -------------------------------- *)
Num(x) == [nan |-> FALSE, v |-> x]
NaN == [nan |-> TRUE, v |-> 0]

\* IEEE comparisons: any comparison with NaN is false.
Ge(a, b) == ~a.nan /\ ~b.nan /\ a.v >= b.v
Lt(a, b) == ~a.nan /\ ~b.nan /\ a.v < b.v
Gt(a, b) == ~a.nan /\ ~b.nan /\ a.v > b.v

\* Series.round(3): to the nearest 0.001, halves to the even neighbour; NaN stays NaN.
round3(c) ==
  IF c.nan THEN c
  ELSE LET q == c.v \div 10
           r == c.v % 10
       IN  IF r < 5 THEN Num(q * 10)
           ELSE IF r > 5 THEN Num((q + 1) * 10)
           ELSE IF q % 2 = 0 THEN Num(q * 10) ELSE Num((q + 1) * 10)

(* ------------------------------ workbook ------------------------------- *)
AllCategories ==
  << "interest_rate", "geopolitics", "technology", "policy", "exchange_rate",
     "environment", "society", "recession", "inflation" >>
risk_categories == SubSeq(AllCategories, 1, NumCategories)
Cats == {risk_categories[i] : i \in 1..NumCategories}

\* Column f'{cat}_sentiment' is <<cat, "sentiment">>, f'{cat}_attention' is <<cat, "attention">>.
Columns == Cats \X {"sentiment", "attention"}

NoDate == 0
Dates == 1..MaxDate

possible_paths ==
  << "index.xlsx", "<program dir>/index.xlsx", "/mount/src/macrorisk/index.xlsx" >>
Paths == {possible_paths[i] : i \in 1..Len(possible_paths)}

(* ------------------------------ slider --------------------------------- *)
SliderMin == 0
SliderMax == 10000
SliderStep == 500
SliderDefault == 3000
Thresholds ==
  {SliderMin + k * SliderStep : k \in 0..((SliderMax - SliderMin) \div SliderStep)}

(* ------------------------------ load_data ------------------------------ *)
\* Variant: a failing read moves on to the next path.
RECURSIVE load_from_next_on_error(_, _, _)
load_from_next_on_error(i, files, book) ==
  IF i > Len(possible_paths)
  THEN [df |-> <<>>, msg |-> "not_found", probed |-> possible_paths, reads |-> <<>>]
  ELSE IF files[possible_paths[i]] = "ok"
       THEN [df |-> <<book>>, msg |-> "found",
             probed |-> SubSeq(possible_paths, 1, i), reads |-> <<possible_paths[i]>>]
       ELSE load_from_next_on_error(i + 1, files, book)

\* The for loop over possible_paths from position i on: the first path that
\* exists is read and nothing after it is looked at; a failing read is caught
\* and yields None (<<>>); with no path left the not-found diagnostic is shown.
RECURSIVE load_from(_, _, _)
load_from(i, files, book) ==
  IF i > Len(possible_paths)
  THEN [df |-> <<>>, msg |-> "not_found", probed |-> possible_paths, reads |-> <<>>]
  ELSE IF files[possible_paths[i]] # "absent"
       THEN IF files[possible_paths[i]] = "ok"
            THEN [df |-> <<book>>, msg |-> "found",
                  probed |-> SubSeq(possible_paths, 1, i), reads |-> <<possible_paths[i]>>]
            ELSE [df |-> <<>>, msg |-> "read_error",
                  probed |-> SubSeq(possible_paths, 1, i), reads |-> <<possible_paths[i]>>]
       ELSE load_from(i + 1, files, book)

load_data(files, book) == load_from(1, files, book)

(* ------------------------------ controls ------------------------------- *)
\* Series.unique(): the distinct values in order of first appearance.
RECURSIVE unique(_)
unique(s) ==
  IF s = <<>> THEN <<>>
  ELSE LET front == unique(SubSeq(s, 1, Len(s) - 1))
           last  == s[Len(s)]
       IN  IF \E i \in 1..Len(front) : front[i] = last THEN front ELSE Append(front, last)

available_dates(t) == unique([i \in 1..Len(t.rows) |-> t.rows[i].date])

\* st.selectbox(options, index=len(options)-1) before any choice: the option
\* at the last position; no option at all gives None.
default_date(options) ==
  IF options = <<>> THEN NoDate ELSE options[Len(options)]

(* ------------------------------ selection ------------------------------ *)
\* df[df['date'].dt.date == selected_date]
matching_rows(t, d) == SelectSeq(t.rows, LAMBDA r : r.date = d)

\* Variant: .iloc[-1], the last of the matching rows.
select_row_last(t, d) ==
  LET hits == matching_rows(t, d)
  IN  IF hits = <<>> THEN <<>> ELSE <<hits[Len(hits)]>>

\* .iloc[0] of the matching rows: <<row>>, or <<>> when it raises IndexError.
select_row(t, d) ==
  LET hits == matching_rows(t, d)
  IN  IF hits = <<>> THEN <<>> ELSE <<hits[1]>>

sentiments(row) == [i \in 1..NumCategories |-> row.sentiment[risk_categories[i]]]
attention(row) == [i \in 1..NumCategories |-> row.attention[risk_categories[i]]]

(* ------------------------------ chart ---------------------------------- *)
\* Variant: the upper annotations centred between the divider and the axis end 1.1.
quadrant_texts_axis_centred(threshold) ==
  << [q |-> "I",   x |-> 5000,  y |-> (11000 + threshold) \div 2],
     [q |-> "II",  x |-> -5000, y |-> (11000 + threshold) \div 2],
     [q |-> "III", x |-> -5000, y |-> threshold \div 2],
     [q |-> "IV",  x |-> 5000,  y |-> threshold \div 2] >>

quadrant_texts(threshold) ==
  << [q |-> "I",   x |-> 5000,  y |-> (10000 + threshold) \div 2],
     [q |-> "II",  x |-> -5000, y |-> (10000 + threshold) \div 2],
     [q |-> "III", x |-> -5000, y |-> threshold \div 2],
     [q |-> "IV",  x |-> 5000,  y |-> threshold \div 2] >>

chart(row, threshold, d) ==
  [ points |-> [i \in 1..NumCategories |->
                  [label |-> risk_categories[i],
                   x |-> sentiments(row)[i], y |-> attention(row)[i]]],
    hline  |-> threshold,
    vline  |-> 0,
    xlim   |-> <<-10000, 10000>>,
    ylim   |-> <<0, 11000>>,
    texts  |-> quadrant_texts(threshold),
    title  |-> d ]

(* ------------------------------ detail table --------------------------- *)
\* One key of sort_values(ascending=False): larger first, NaN after every number.
KeyBefore(a, b) == ~a.nan /\ (b.nan \/ a.v > b.v)
KeyTie(a, b) == (a.nan /\ b.nan) \/ (~a.nan /\ ~b.nan /\ a.v = b.v)

\* sort_values(by=[attention, sentiment], ascending=[False, False]) of the
\* frame whose i-th line is category i; lines equal on both keys keep their order.
RowBefore(rows, i, j) ==
  \/ KeyBefore(rows[i].attention, rows[j].attention)
  \/ /\ KeyTie(rows[i].attention, rows[j].attention)
     /\ \/ KeyBefore(rows[i].sentiment, rows[j].sentiment)
        \/ KeyTie(rows[i].sentiment, rows[j].sentiment) /\ i < j

sort_values(rows) ==
  LET rank == [i \in 1..Len(rows) |->
                 1 + Cardinality({j \in 1..Len(rows) : RowBefore(rows, j, i)})]
  IN  [k \in 1..Len(rows) |-> rows[CHOOSE i \in 1..Len(rows) : rank[i] = k]]

\* Variant: the frame is ordered by the rounded values.
risk_data_sorted_on_rounded(row) ==
  LET raw == [i \in 1..NumCategories |->
                [category |-> risk_categories[i],
                 sentiment |-> sentiments(row)[i],
                 attention |-> attention(row)[i]]]
      shown == sort_values([i \in 1..NumCategories |->
                 [category |-> raw[i].category,
                  sentiment |-> round3(raw[i].sentiment),
                  attention |-> round3(raw[i].attention)]])
  IN  [k \in 1..NumCategories |->
         raw[CHOOSE i \in 1..NumCategories : raw[i].category = shown[k].category]]

risk_data(row) ==
  sort_values([i \in 1..NumCategories |->
                 [category |-> risk_categories[i],
                  sentiment |-> sentiments(row)[i],
                  attention |-> attention(row)[i]]])

QI == "I - market strength signal"
QII == "II - market panic / risk alert"
QIII == "III - latent risk not yet realised"
QIV == "IV - overlooked positive"

\* Variant: a sentiment of exactly 0 counts as negative-side (strict comparison).
get_quadrant_strict_sentiment(r, threshold) ==
  IF Gt(r.sentiment, Num(0)) /\ Ge(r.attention, Num(threshold)) THEN QI
  ELSE IF Lt(r.sentiment, Num(0)) /\ Ge(r.attention, Num(threshold)) THEN QII
  ELSE IF Lt(r.sentiment, Num(0)) /\ Lt(r.attention, Num(threshold)) THEN QIII
  ELSE QIV

\* Variant: an attention equal to the threshold counts as low (strict comparison).
get_quadrant_strict_attention(r, threshold) ==
  IF Ge(r.sentiment, Num(0)) /\ Gt(r.attention, Num(threshold)) THEN QI
  ELSE IF Lt(r.sentiment, Num(0)) /\ Gt(r.attention, Num(threshold)) THEN QII
  ELSE IF Lt(r.sentiment, Num(0)) /\ Lt(r.attention, Num(threshold)) THEN QIII
  ELSE QIV

get_quadrant(r, threshold) ==
  IF Ge(r.sentiment, Num(0)) /\ Ge(r.attention, Num(threshold)) THEN QI
  ELSE IF Lt(r.sentiment, Num(0)) /\ Ge(r.attention, Num(threshold)) THEN QII
  ELSE IF Lt(r.sentiment, Num(0)) /\ Lt(r.attention, Num(threshold)) THEN QIII
  ELSE QIV

\* The copy of risk_data with both value columns rounded and the quadrant column added.
formatted_risk_data(row, threshold) ==
  LET sorted == risk_data(row)
  IN  [k \in 1..Len(sorted) |->
         LET shown == [category  |-> sorted[k].category,
                       sentiment |-> round3(sorted[k].sentiment),
                       attention |-> round3(sorted[k].attention)]
         IN  [category  |-> shown.category,
              sentiment |-> shown.sentiment,
              attention |-> shown.attention,
              quadrant  |-> get_quadrant(shown, threshold)]]

(* ------------------------------ one script pass ------------------------ *)
Blank == [status |-> "blank", controls |-> FALSE, options |-> <<>>,
          default |-> NoDate, chart |-> <<>>, table |-> <<>>]

\* What the page shows after a pass over frame d (<<>> is None) with the
\* slider at threshold and the selector at date sel.
render(d, threshold, sel) ==
  IF d = <<>>
  THEN [Blank EXCEPT !.status = "halted"]
  ELSE LET t       == d[1]
           options == available_dates(t)
           picked  == select_row(t, sel)
           base    == [Blank EXCEPT !.controls = TRUE,
                                    !.options = options,
                                    !.default = default_date(options)]
       IN  IF picked = <<>>
           THEN [base EXCEPT !.status = "IndexError"]
           ELSE IF Columns \subseteq t.columns
                THEN [base EXCEPT !.status = "rendered",
                                  !.chart = <<chart(picked[1], threshold, sel)>>,
                                  !.table = formatted_risk_data(picked[1], threshold)]
                ELSE [base EXCEPT !.status = "KeyError"]

(* ------------------------------ initial states ------------------------- *)
FileStates == {"absent", "malformed", "ok"}
FoundAtFirst == [p \in Paths |-> IF p = possible_paths[1] THEN "ok" ELSE "absent"]

\* Multi-day history: on each row all categories carry the same reading.
HistorySentiments == {Num(-2000), Num(3000)}
HistoryRows ==
  {[date |-> d, sentiment |-> [c \in Cats |-> s], attention |-> [c \in Cats |-> Num(5000)]]
     : d \in Dates, s \in HistorySentiments}
HistoryTables ==
  UNION {[1..n -> HistoryRows] : n \in 0..MaxRows}

\* One day's readings, category by category.
SentimentValues == {Num(-2000), Num(-1), Num(0), Num(3000)}
AttentionValues == {Num(4996), Num(5000)}

Fresh ==
  /\ cached = FALSE
  /\ df = <<>>
  /\ load_msg = "none"
  /\ probed = <<>>
  /\ reads = <<>>
  /\ loaded = <<>>
  /\ attention_threshold = SliderDefault
  /\ selected_date = NoDate
  /\ selected_data = <<>>
  /\ screen = Blank

\* The workbook sits at the first path and holds a history of up to MaxRows
\* rows, in any order of dates, dates repeated or not.
Init ==
  /\ fs = FoundAtFirst
  /\ \E rows \in HistoryTables : sheet = [columns |-> Columns, rows |-> rows]
  /\ Fresh

\* Any combination of absent, unreadable and good files at the three paths;
\* the workbook holds one row.
InitFiles ==
  /\ fs \in [Paths -> FileStates]
  /\ \E r \in HistoryRows : sheet = [columns |-> Columns, rows |-> <<r>>]
  /\ Fresh

\* The workbook sits at the first path and holds one row whose cells range
\* over SentimentValues and AttentionValues, with at most one gap: an empty
\* cell (NaN) or a column that is not in the sheet.
InitRow ==
  /\ fs = FoundAtFirst
  /\ \E s \in [Cats -> SentimentValues], a \in [Cats -> AttentionValues],
        empty \in {{}} \cup {{col} : col \in Columns}, missing \in BOOLEAN :
       sheet =
         [columns |-> IF missing THEN Columns \ empty ELSE Columns,
          rows |-> <<[date |-> 1,
                      sentiment |-> [c \in Cats |->
                                       IF <<c, "sentiment">> \in empty THEN NaN ELSE s[c]],
                      attention |-> [c \in Cats |->
                                       IF <<c, "attention">> \in empty THEN NaN ELSE a[c]]]>>]
  /\ Fresh

(* ------------------------------ actions -------------------------------- *)
\* The rest of the script after load_data, with the widgets at (threshold, sel).
Show(d, threshold, sel) ==
  /\ attention_threshold' = threshold
  /\ selected_date' = sel
  /\ selected_data' = (IF d = <<>> THEN <<>> ELSE select_row(d[1], sel))
  /\ screen' = render(d, threshold, sel)

\* First visit: load_data runs and is memoised, the widgets take their defaults.
FirstRun ==
  /\ ~cached
  /\ LET r == load_data(fs, sheet)
     IN  /\ cached' = TRUE
         /\ df' = r.df
         /\ load_msg' = r.msg
         /\ probed' = r.probed
         /\ reads' = r.reads
         /\ loaded' = r.df
         /\ IF r.df = <<>>
            THEN Show(r.df, attention_threshold, selected_date)
            ELSE Show(r.df, SliderDefault, default_date(available_dates(r.df[1])))
  /\ UNCHANGED <<fs, sheet>>

\* Variant: a pass that keeps the detail table of the page before it.
Pass_stale_table(threshold, sel) ==
  /\ cached
  /\ attention_threshold' = threshold
  /\ selected_date' = sel
  /\ selected_data' = (IF df = <<>> THEN <<>> ELSE select_row(df[1], sel))
  /\ screen' = (IF screen.status = "rendered" /\ render(df, threshold, sel).status = "rendered"
                THEN [render(df, threshold, sel) EXCEPT !.table = screen.table]
                ELSE render(df, threshold, sel))
  /\ UNCHANGED <<fs, sheet, cached, df, load_msg, probed, reads, loaded>>

\* A later pass: load_data answers from the memo, nothing is read again.
Pass(threshold, sel) ==
  /\ cached
  /\ Show(df, threshold, sel)
  /\ UNCHANGED <<fs, sheet, cached, df, load_msg, probed, reads, loaded>>

\* The user moves the slider.
SetThreshold(k) ==
  /\ screen.controls
  /\ k # attention_threshold
  /\ Pass(k, selected_date)

\* The user picks one of the offered dates.
SelectDate(d) ==
  /\ screen.controls
  /\ \E i \in 1..Len(screen.options) : screen.options[i] = d
  /\ d # selected_date
  /\ Pass(attention_threshold, d)

\* The user reruns the page with the widgets untouched.
Rerun ==
  /\ cached
  /\ Pass(attention_threshold, selected_date)

Next ==
  \/ FirstRun
  \/ \E k \in Thresholds : SetThreshold(k)
  \/ \E d \in Dates : SelectDate(d)
  \/ Rerun

\* A one-row workbook offers a single date: there is no other date to pick.
NextOneRow ==
  \/ FirstRun
  \/ \E k \in Thresholds : SetThreshold(k)
  \/ Rerun

Spec == Init /\ [][Next]_vars
SpecFiles == InitFiles /\ [][NextOneRow]_vars
SpecRow == InitRow /\ [][NextOneRow]_vars

(* ------------------------------ properties ----------------------------- *)
Min(S) == CHOOSE x \in S : \A y \in S : x <= y
Max(S) == CHOOSE x \in S : \A y \in S : x >= y
Quadrants == {QI, QII, QIII, QIV}
Rendered == screen.status = "rendered"
ChartShown == screen.chart[1]
\* The chart point of category c, as a classifier input.
Plotted(c) ==
  LET p == CHOOSE p \in {ChartShown.points[i] : i \in 1..NumCategories} : p.label = c
  IN  [sentiment |-> p.x, attention |-> p.y]

\* C1: every label of the detail table is the classification of the values the
\* chart plots for that category (the values of the selected row, unrounded).
C1_LabelIsClassifyOfPlottedValues ==
  Rendered =>
    \A k \in 1..Len(screen.table) :
      screen.table[k].quadrant
        = get_quadrant(Plotted(screen.table[k].category), attention_threshold)

\* C2: on numbers the classifier returns exactly one quadrant by the four-way
\* rule, ties sentiment = 0 to I/IV and attention = threshold to I/II; it
\* returns one of the four labels on every input.
C2_ClassifierTotalWithTies ==
  \A k \in 1..Len(screen.table) :
    LET r == screen.table[k]
        s == r.sentiment
        a == r.attention
        t == attention_threshold
    IN  /\ r.quadrant \in Quadrants
        /\ (~s.nan /\ ~a.nan) =>
             /\ r.quadrant = QI   <=> (s.v >= 0 /\ a.v >= t)
             /\ r.quadrant = QII  <=> (s.v < 0  /\ a.v >= t)
             /\ r.quadrant = QIII <=> (s.v < 0  /\ a.v < t)
             /\ r.quadrant = QIV  <=> (s.v >= 0 /\ a.v < t)

\* classify(0, threshold, threshold) = I has been computed.
C2_Witness ==
  /\ Rendered
  /\ \E k \in 1..Len(screen.table) :
       /\ screen.table[k].sentiment = Num(0)
       /\ screen.table[k].attention = Num(attention_threshold)
       /\ screen.table[k].quadrant = QI

\* C3: a category whose sentiment or attention is absent from the selected row
\* (column missing or empty cell) gets no plotted point and no quadrant label.
C3_AbsentValueFailsCategory ==
  (cached /\ selected_data # <<>>) =>
    \A c \in Cats :
      (\/ <<c, "sentiment">> \notin df[1].columns
       \/ <<c, "attention">> \notin df[1].columns
       \/ selected_data[1].sentiment[c].nan
       \/ selected_data[1].attention[c].nan)
      => /\ \A k \in 1..Len(screen.table) : screen.table[k].category # c
         /\ \A i \in 1..Len(screen.chart) : \A j \in 1..NumCategories :
              screen.chart[i].points[j].label = c
                => (screen.chart[i].points[j].x.nan \/ screen.chart[i].points[j].y.nan)

\* C4: the selector offers exactly the distinct dates of the table and its
\* default is the latest of them.
C4_DefaultIsMostRecentDate ==
  screen.controls =>
    LET present == {df[1].rows[i].date : i \in 1..Len(df[1].rows)}
    IN  /\ {screen.options[i] : i \in 1..Len(screen.options)} = present
        /\ \A i, j \in 1..Len(screen.options) : i # j => screen.options[i] # screen.options[j]
        /\ present # {} => screen.default = Max(present)

\* C5: a pass selects exactly the first row, in table order, of the chosen
\* date, and the chart shows that row; with no row of that date it fails with
\* the index error and shows neither chart nor table.
C5_FirstMatchingRowOrNotFound ==
  (cached /\ df # <<>>) =>
    LET rows == df[1].rows
        hits == {i \in 1..Len(rows) : rows[i].date = selected_date}
    IN  IF hits = {}
        THEN /\ selected_data = <<>>
             /\ screen.status = "IndexError"
             /\ screen.chart = <<>>
             /\ screen.table = <<>>
        ELSE /\ selected_data = <<rows[Min(hits)]>>
             /\ Rendered =>
                  /\ ChartShown.title = selected_date
                  /\ \A c \in Cats :
                       Plotted(c) = [sentiment |-> rows[Min(hits)].sentiment[c],
                                     attention |-> rows[Min(hits)].attention[c]]

\* Two rows share the chosen date, differ in content, and the first is shown.
C5_Witness ==
  /\ Rendered
  /\ Len(df[1].rows) >= 2
  /\ df[1].rows[1].date = selected_date
  /\ df[1].rows[2].date = selected_date
  /\ df[1].rows[1] # df[1].rows[2]
  /\ selected_data = <<df[1].rows[1]>>

\* The empty table: no date to choose, the pass fails at the selection.
C5_NotFoundReached ==
  /\ cached
  /\ df # <<>>
  /\ df[1].rows = <<>>
  /\ screen.status = "IndexError"

\* C6: the paths are examined in order up to the first that exists, only that
\* one is read, and only once; when none exists or its read fails there is no
\* table and the page halts with the diagnostic and without control, chart or table.
C6_FirstExistingPathOrHalt ==
  cached =>
    LET ex == {i \in 1..Len(possible_paths) : fs[possible_paths[i]] # "absent"}
        Halted == /\ df = <<>>
                  /\ screen.status = "halted"
                  /\ ~screen.controls
                  /\ screen.chart = <<>>
                  /\ screen.table = <<>>
    IN  IF ex = {}
        THEN /\ reads = <<>>
             /\ probed = possible_paths
             /\ load_msg = "not_found"
             /\ Halted
        ELSE /\ reads = <<possible_paths[Min(ex)]>>
             /\ probed = SubSeq(possible_paths, 1, Min(ex))
             /\ IF fs[possible_paths[Min(ex)]] = "ok"
                THEN df = <<sheet>> /\ screen.controls
                ELSE load_msg = "read_error" /\ Halted

\* The first path is absent, the second exists but cannot be read, the third is
\* a good workbook: the second is read, the third is not, the page halts.
C6_Witness ==
  /\ cached
  /\ fs[possible_paths[1]] = "absent"
  /\ fs[possible_paths[2]] = "malformed"
  /\ fs[possible_paths[3]] = "ok"
  /\ reads = <<possible_paths[2]>>
  /\ screen.status = "halted"

\* C7: the detail table holds every category once, ordered by unrounded
\* attention descending, then unrounded sentiment descending (compared where
\* both values are numbers), and shows the values rounded to 3 decimals.
C7_SortedByRawThenRounded ==
  Rendered =>
    LET T == screen.table
        row == selected_data[1]
        sen(k) == row.sentiment[T[k].category]
        att(k) == row.attention[T[k].category]
    IN  /\ Len(T) = NumCategories
        /\ {T[k].category : k \in 1..Len(T)} = Cats
        /\ \A k \in 1..Len(T) :
             /\ T[k].sentiment = round3(sen(k))
             /\ T[k].attention = round3(att(k))
        /\ \A i, j \in 1..Len(T) :
             (i < j /\ ~att(i).nan /\ ~att(j).nan) =>
               /\ att(i).v >= att(j).v
               /\ (att(i).v = att(j).v /\ ~sen(i).nan /\ ~sen(j).nan) => sen(i).v >= sen(j).v

\* Attentions 0.4996 and 0.5 show the same 0.5; the raw 0.5 comes first although
\* its sentiment is the smaller one.
C7_Witness ==
  /\ Rendered
  /\ selected_data[1].attention[risk_categories[1]] = Num(4996)
  /\ selected_data[1].attention[risk_categories[2]] = Num(5000)
  /\ selected_data[1].sentiment[risk_categories[1]] = Num(3000)
  /\ selected_data[1].sentiment[risk_categories[2]] = Num(-2000)
  /\ screen.table[1].category = risk_categories[2]
  /\ screen.table[1].attention = screen.table[2].attention

\* The sentiment tie-break: equal attentions, the larger sentiment first.
C7_TieBreakReached ==
  /\ Rendered
  /\ selected_data[1].attention[risk_categories[1]] = Num(5000)
  /\ selected_data[1].attention[risk_categories[2]] = Num(5000)
  /\ selected_data[1].sentiment[risk_categories[1]] = Num(0)
  /\ selected_data[1].sentiment[risk_categories[2]] = Num(3000)
  /\ screen.table[1].category = risk_categories[2]

\* C8: axes [-1, 1] and [0, 1.1], dividers at attention = threshold and
\* sentiment = 0, annotations I..IV at (+-0.5, (1 + threshold)/2 or threshold/2),
\* the midpoints of [0, 1] / [-1, 0] and of [threshold, 1] / [0, threshold].
C8_LayoutGeometry ==
  Rendered =>
    LET L == ChartShown
        t == attention_threshold
        at(q) == CHOOSE a \in {L.texts[i] : i \in 1..Len(L.texts)} : a.q = q
    IN  /\ t \in Thresholds
        /\ L.xlim = <<-10000, 10000>>
        /\ L.ylim = <<0, 11000>>
        /\ L.hline = t
        /\ L.vline = 0
        /\ Len(L.texts) = 4
        /\ {L.texts[i].q : i \in 1..4} = {"I", "II", "III", "IV"}
        /\ 2 * at("I").x = 0 + 10000     /\ 2 * at("I").y = t + 10000
        /\ 2 * at("II").x = -10000 + 0   /\ 2 * at("II").y = t + 10000
        /\ 2 * at("III").x = -10000 + 0  /\ 2 * at("III").y = 0 + t
        /\ 2 * at("IV").x = 0 + 10000    /\ 2 * at("IV").y = 0 + t

\* The slider is at its upper end.
C8_Witness ==
  /\ Rendered
  /\ attention_threshold = SliderMax
  /\ ChartShown.hline = SliderMax

\* C9: after every pass the loaded table is the one of the first load and what
\* is shown is a function of that table, the chosen date and the threshold
\* alone; a pass with the same table, date and threshold shows the same again.
C9_SameInputs ==
  /\ cached /\ cached'
  /\ df' = df
  /\ selected_date' = selected_date
  /\ attention_threshold' = attention_threshold
C9_OutputsDependOnlyOnInputs ==
  /\ [](cached =>
          /\ df = loaded
          /\ loaded \in {<<>>, <<sheet>>}
          /\ selected_data = (IF loaded = <<>> THEN <<>> ELSE select_row(loaded[1], selected_date))
          /\ screen = render(loaded, attention_threshold, selected_date))
  /\ [][C9_SameInputs => (screen' = screen /\ selected_data' = selected_data)]_vars

\* Both widgets have been moved away from their defaults and a page is shown.
C9_Witness ==
  /\ Rendered
  /\ attention_threshold # SliderDefault
  /\ selected_date # screen.default

\* The anchor of annotation q, classified by the table's rule.
AnchorQuadrant(q) ==
  LET a == CHOOSE a \in {ChartShown.texts[i] : i \in 1..Len(ChartShown.texts)} : a.q = q
  IN  get_quadrant([sentiment |-> Num(a.x), attention |-> Num(a.y)], attention_threshold)

\* C10 as stated: at every slider value each annotation lies in the quadrant it names.
C10_EveryAnnotationInItsQuadrant ==
  Rendered =>
    /\ AnchorQuadrant("I") = QI
    /\ AnchorQuadrant("II") = QII
    /\ AnchorQuadrant("III") = QIII
    /\ AnchorQuadrant("IV") = QIV

\* C10 amended: annotations I and II lie in their quadrants at every slider
\* value, III and IV at every slider value above 0; at threshold 0 the anchors
\* of III and IV sit on the divider and classify as II and I.
C10_AnnotationInQuadrantAboveZero ==
  Rendered =>
    /\ AnchorQuadrant("I") = QI
    /\ AnchorQuadrant("II") = QII
    /\ attention_threshold > SliderMin =>
         AnchorQuadrant("III") = QIII /\ AnchorQuadrant("IV") = QIV
    /\ attention_threshold = SliderMin =>
         AnchorQuadrant("III") = QII /\ AnchorQuadrant("IV") = QI

\* The smallest positive slider value.
C10_Witness ==
  /\ Rendered
  /\ attention_threshold = SliderMin + SliderStep
  /\ AnchorQuadrant("III") = QIII

====
